---------------------------- MODULE Spec2Model ----------------------------
(***************************************************************************)
(* Model of src/app.go: the image cache (addToCache, getFromCache,         *)
(* clearImageCache) as driven by the handlers getImage and postIndex, the  *)
(* feed assembler makePosts and the transcoder resizeImage.                *)
(*                                                                         *)
(* Three specifications share the module's variables:                      *)
(*   Spec        the image read path, uploads and the cache                *)
(*   SpecPosts   calls of makePosts, and the handlers that write its       *)
(*               tables                                                    *)
(*   SpecResize  one call of resizeImage on any image                      *)
(***************************************************************************)
EXTENDS Integers, Sequences, FiniteSets, TLC

VARIABLES
    posts,      \* table posts: id -> [user_id, mime, imgdata]
    data,       \* imageCache.data: key -> entry
    curSize,    \* imageCache.curSize
    now,        \* the clock: how many times time.Now() has been read (n),
                \* and the time the last reading gave (t)
    req,        \* per request goroutine of getImage: its position and locals
    up,         \* the goroutine of postIndex: its position and its user
    ini,        \* getInitialize: the statements of dbInitialize run so
                \* far, all calls together (no call is running when
                \* every call so far has run all of its statements)
    nextID,     \* the id AUTO_INCREMENT gives the next row of posts
    lastPut,    \* history: the addToCache call that has just returned
    lock,       \* imageCache's RWMutex: who holds it, reading or writing
    resp,       \* history: the response getImage has just written
    rz,         \* one call of resizeImage: its input and its result
    users,      \* table users: id -> del_flg
    nextUser,   \* the id AUTO_INCREMENT gives the next row of users
    comments,   \* table comments: its rows [post_id, user_id] in the order
                \* of their ids
    cm,         \* the goroutine of postComment: its position and its user
    bn,         \* the goroutine of postAdminBanned: its position
    mp          \* one call of makePosts: its arguments, position and locals

imageVars == <<data, curSize, now, req, up, ini, nextID, lastPut, lock, resp>>
feedVars  == <<users, nextUser, comments, cm, bn, mp>>
vars      == <<posts, data, curSize, now, req, up, ini, nextID, lastPut,
               lock, resp, rz, users, nextUser, comments, cm, bn,
               mp>>

(***************************************************************************)
(* Bounds of the model.                                                    *)
(***************************************************************************)
\* imageCache.maxSize is 100MB in the code (src/app.go:60); the model keeps
\* the eviction arithmetic and scales the budget and the payloads down.
maxSize == 5
\* The clock moves at most this many times in one behaviour.  It is read
\* under the write lock only, and a goroutine that would read it after its
\* last move does not get the lock.
MaxClock == 3
\* readings of time.Now(), in one behaviour, at which the clock has not
\* moved since the reading before
MaxTies == 1
\* calls of getInitialize in one behaviour
MaxInit == 1
\* rows of the comments table
MaxComments == 1
\* posts in the list a handler hands to makePosts
MaxList == 2

\* ids of the rows the posts table can hold, the uploaded ones included
PostIds == {1, 2, 3}
\* ids of the rows of the users table, the registered ones included
UserIds == {1, 2, 3}
Readers == {"r1", "r2"}
Exts == {"jpg", "png"}
\* UploadLimit is 10MB in the code, a tenth of imageCache.maxSize; scaled
\* down with the budget it stays below it
UploadLimit == maxSize - 1
\* lengths of the files posted: small (two fit in the cache, three do not),
\* large (fits alone), and larger than UploadLimit
Sizes == {2, maxSize - 1, maxSize + 1}
\* The files posted in a behaviour: the mime type of the form, the length
\* of the file, whether image.Decode reads it, and the length of its
\* re-encoding at 800 x 800, which does not depend on the length of the
\* file and is far below maxSize.
Uploads ==
    {[mime |-> "image/jpeg", len |-> 2, decodes |-> FALSE, resized |-> 2],
     [mime |-> "image/png", len |-> 2, decodes |-> TRUE,
      resized |-> maxSize - 1],
     [mime |-> "image/jpeg", len |-> maxSize + 1, decodes |-> TRUE,
      resized |-> 2]}
None == [none |-> TRUE]

RECURSIVE SumLen(_, _)
\* sum of len(entry.data) over the keys ks of the map d
SumLen(d, ks) ==
    IF ks = {} THEN 0
    ELSE LET k == CHOOSE x \in ks : TRUE
         IN Len(d[k].data) + SumLen(d, ks \ {k})

\* the bytes of an image: a payload of the given length owned by post pid
Bytes(pid, n) == [i \in 1..n |-> pid]

\* delete(imageCache.data, k)
Delete(d, k) == [x \in DOMAIN d \ {k} |-> d[x]]

\* a key made of the extension alone
CacheKeyOfExt(pid, ext) == <<0, ext>>

\* fmt.Sprintf("%d.%s", pid, ext)
CacheKey(pid, ext) == <<pid, ext>>

\* a test that looks at the extension alone
ExtMatchesJpg(ext, mime) == ext = "jpg"

\* a test that lets every extension through
ExtMatchesAny(ext, mime) == TRUE

\* getImage's extension / mime test
ExtMatches(ext, mime) ==
    \/ ext = "jpg" /\ mime = "image/jpeg"
    \/ ext = "png" /\ mime = "image/png"
    \/ ext = "gif" /\ mime = "image/gif"

(***************************************************************************)
(* imageCache's sync.RWMutex.  RLock() and Lock() block: each is a step    *)
(* the goroutine takes when the mutex lets it.  What the goroutine does    *)
(* under the mutex cannot block, and is one step with the RUnlock() or     *)
(* Unlock() that ends it.                                                  *)
(***************************************************************************)
\* the goroutine of postIndex
Uploader == "up"

\* nobody holds the mutex
Unlocked == [readers |-> {}, writer |-> {}]

\* the goroutines that hold the mutex, reading or writing
Holders(l) == l.readers \cup l.writer

\* RLock returns while no writer holds the mutex
CanRLock(l) == l.writer = {}
RLock(l, g) == [l EXCEPT !.readers = @ \cup {g}]

\* a lookup that returns without giving the read lock back
RUnlockForgotten(l, g) == l

RUnlock(l, g) == [l EXCEPT !.readers = @ \ {g}]

\* Lock returns while nobody holds the mutex
CanLock(l) == Holders(l) = {}
Lock(l, g) == [l EXCEPT !.writer = {g}]
Unlock(l, g) == [l EXCEPT !.writer = {}]

(***************************************************************************)
(* The response of getImage                                                *)
(***************************************************************************)
\* the value of a header that is not there: r.Header.Get gives ""
NoTag == <<>>

\* fmt.Sprintf(`"%x"`, sha256.Sum256(imgdata)): the tag names the bytes it
\* was computed from (SHA-256 taken as free of collisions)
ETag(imgdata) == <<"sha256", imgdata>>

\* the If-None-Match header of a request for an image of bytes imgdata:
\* absent, the tag of these bytes from an earlier read, or another tag
Matches(imgdata) == {NoTag, ETag(imgdata), ETag(<<>>)}

\* getMimeType
GetMimeType(ext) ==
    CASE ext = "jpg" -> "image/jpeg"
      [] ext = "png" -> "image/png"
      [] ext = "gif" -> "image/gif"
      [] OTHER -> ""

\* a handler that never answers 304
NotModifiedNever(match, etag) == FALSE

\* match != "" and match == the tag of imgdata
NotModified(match, etag) == match # NoTag /\ match = etag

\* the tail of getImage: the headers, then 304 without a body if the
\* request's If-None-Match is the tag, the bytes otherwise
Serve(ext, imgdata, match) ==
    [status |-> IF NotModified(match, ETag(imgdata)) THEN 304 ELSE 200,
     ctype |-> GetMimeType(ext),
     etag |-> ETag(imgdata),
     body |-> IF NotModified(match, ETag(imgdata)) THEN <<>> ELSE imgdata]

\* w.WriteHeader(http.StatusNotFound); return
NotFound == [status |-> 404, ctype |-> "", etag |-> NoTag, body |-> <<>>]

\* db.Get has failed: log.Print(err); return.  The handler has written
\* nothing, and net/http answers 200 with an empty body.
Unwritten == [status |-> 200, ctype |-> "", etag |-> NoTag, body |-> <<>>]

(***************************************************************************)
(* addToCache                                                              *)
(***************************************************************************)
\* a scan that ends on the most recently used key instead
NewestKeys(d) ==
    {k \in DOMAIN d : \A j \in DOMAIN d : ~(d[k].lastUse < d[j].lastUse)}

\* The inner scan of addToCache: the key it ends up with.  The scan keeps
\* the first key it meets and replaces it only by a strictly older one, so
\* it ends on a key of minimal lastUse; Go's map iteration order decides
\* which one among equals.
OldestKeys(d) ==
    {k \in DOMAIN d : \A j \in DOMAIN d : ~(d[j].lastUse < d[k].lastUse)}

\* an eviction "loop" that is an if: it evicts one entry at most
EvictOnce(d, cur, newSize, ev) ==
    IF cur + newSize > maxSize /\ DOMAIN d # {}
    THEN {[data |-> Delete(d, k), curSize |-> cur - Len(d[k].data),
           evicted |-> Append(ev, k)] : k \in OldestKeys(d)}
    ELSE {[data |-> d, curSize |-> cur, evicted |-> ev]}

RECURSIVE EvictForever(_, _, _, _)
\* an eviction loop without the `else break`: on an empty map that still
\* does not fit the payload it spins for ever and has no outcome
EvictForever(d, cur, newSize, ev) ==
    IF cur + newSize > maxSize
    THEN UNION { EvictForever(Delete(d, k), cur - Len(d[k].data), newSize,
                              Append(ev, k)) : k \in OldestKeys(d) }
    ELSE {[data |-> d, curSize |-> cur, evicted |-> ev]}

RECURSIVE EvictLoop(_, _, _, _)
\* The eviction loop of addToCache: every [data, curSize, evicted] the loop
\* can end with, from map d and tracked size cur, for a payload of newSize.
EvictLoop(d, cur, newSize, ev) ==
    IF cur + newSize > maxSize /\ DOMAIN d # {}
    THEN UNION { EvictLoop(Delete(d, k), cur - Len(d[k].data), newSize,
                           Append(ev, k)) : k \in OldestKeys(d) }
    ELSE {[data |-> d, curSize |-> cur, evicted |-> ev]}

\* the map after imageCache.data[key] = &cacheEntry{data, time.Now()}
Insert(d, key, entry) ==
    [x \in DOMAIN d \cup {key} |-> IF x = key THEN entry ELSE d[x]]

\* the tracked size after the insertion
SizeAfterInsert(cur, newSize) == cur + newSize

\* the clock before its first reading
Epoch == [n |-> 0, t |-> 0]

\* time.Now(): the clock after the next reading.  The clock does not go
\* back, and whether it has moved since the reading before depends on the
\* platform: the reading gives a later time or the same time again.  The
\* first reading has none before it.
TimeNow(c) ==
    {[n |-> c.n + 1, t |-> t] :
        t \in IF c.n = 0 \/ c.n - c.t >= MaxTies
               THEN {c.t + 1}
               ELSE {c.t, c.t + 1}}

AddToCache(key, bytes) ==
    /\ now' \in TimeNow(now)
    /\ \E r \in EvictLoop(data, curSize, Len(bytes), <<>>) :
         /\ data' = Insert(r.data, key,
                           [id |-> now'.n, data |-> bytes,
                            lastUse |-> now'.t, lastGet |-> 0])
         /\ curSize' = SizeAfterInsert(r.curSize, Len(bytes))
         /\ lastPut' = [key |-> key, len |-> Len(bytes), before |-> data,
                        beforeSize |-> curSize, evicted |-> r.evicted]

\* an invalidation that replaces the map and keeps the tracked size
ClearMapOnly ==
    /\ data' = << >>
    /\ lastPut' = None
    /\ UNCHANGED <<curSize, now>>

\* clearImageCache
ClearImageCache ==
    /\ data' = << >>
    /\ curSize' = 0
    /\ lastPut' = None
    /\ UNCHANGED now

(***************************************************************************)
(* getFromCache, in its two critical sections                              *)
(***************************************************************************)
\* the map d stores under key the entry object id
Holds(d, key, id) == key \in DOMAIN d /\ d[key].id = id

\* a get that finds the entry and forgets to write its lastUse
RefreshForgotten(d, key, id, t) ==
    IF key \in DOMAIN d /\ d[key].id = id
    THEN [d EXCEPT ![key].lastGet = t]
    ELSE d

\* a refresh that stores the entry again when the map has lost it
RefreshReinsert(d, key, id, t) ==
    IF Holds(d, key, id)
    THEN [d EXCEPT ![key].lastUse = t, ![key].lastGet = t]
    ELSE Insert(d, key, [id |-> id, data |-> <<>>, lastUse |-> t, lastGet |-> t])

\* entry.lastUse = time.Now() on the entry object the lookup returned: the
\* map changes only if that object is still the one stored under the key.
\* lastGet is history: the time of the last get that refreshed the entry.
Refresh(d, key, id, t) ==
    IF key \in DOMAIN d /\ d[key].id = id
    THEN [d EXCEPT ![key].lastUse = t, ![key].lastGet = t]
    ELSE d

Idle == [pc |-> "idle"]

\* GET /image/{id}.{ext} arrives; getFromCache: imageCache.mu.RLock() and
\* entry, found := imageCache.data[key]
Lookup(g) ==
    /\ req[g].pc = "idle"
    /\ CanRLock(lock)
    /\ lock' = RLock(lock, g)
    /\ \E pid \in PostIds, ext \in Exts :
         LET key == CacheKey(pid, ext)
         IN IF key \in DOMAIN data
            THEN req' = [req EXCEPT ![g] =
                           [pc |-> "looked", pid |-> pid, ext |-> ext,
                            found |-> TRUE, entry |-> data[key].id,
                            imgdata |-> data[key].data]]
            ELSE req' = [req EXCEPT ![g] =
                           [pc |-> "looked", pid |-> pid, ext |-> ext,
                            found |-> FALSE]]
    /\ lastPut' = None
    /\ resp' = None
    /\ UNCHANGED <<posts, data, curSize, now, up, ini, nextID, feedVars,
                   rz>>

\* getFromCache: imageCache.mu.RUnlock(); if !found { return nil, false }
LookupRUnlock(g) ==
    /\ req[g].pc = "looked"
    /\ lock' = RUnlock(lock, g)
    /\ req' = [req EXCEPT ![g] =
                 IF req[g].found
                 THEN [pc |-> "touch", pid |-> req[g].pid, ext |-> req[g].ext,
                       entry |-> req[g].entry, imgdata |-> req[g].imgdata]
                 ELSE [pc |-> "load", pid |-> req[g].pid, ext |-> req[g].ext]]
    /\ lastPut' = None
    /\ resp' = None
    /\ UNCHANGED <<posts, data, curSize, now, up, ini, nextID, feedVars,
                   rz>>

\* getFromCache after a hit: imageCache.mu.Lock()
TouchLock(g) ==
    /\ req[g].pc = "touch"
    /\ now.t < MaxClock
    /\ CanLock(lock)
    /\ lock' = Lock(lock, g)
    /\ req' = [req EXCEPT ![g].pc = "refresh"]
    /\ lastPut' = None
    /\ resp' = None
    /\ UNCHANGED <<posts, data, curSize, now, up, ini, nextID, feedVars,
                   rz>>

\* getFromCache: entry.lastUse = time.Now(); imageCache.mu.Unlock(); the
\* hit is served
Touch(g) ==
    /\ req[g].pc = "refresh"
    /\ now' \in TimeNow(now)
    /\ data' = Refresh(data, CacheKey(req[g].pid, req[g].ext),
                       req[g].entry, now'.t)
    /\ lock' = Unlock(lock, g)
    /\ \E match \in Matches(req[g].imgdata) :
         resp' = [pid |-> req[g].pid, ext |-> req[g].ext, hit |-> TRUE,
                  match |-> match,
                  stale |-> ~Holds(data, CacheKey(req[g].pid, req[g].ext),
                                   req[g].entry),
                  out |-> Serve(req[g].ext, req[g].imgdata, match)]
    /\ req' = [req EXCEPT ![g] = Idle]
    /\ lastPut' = None
    /\ UNCHANGED <<posts, curSize, up, ini, nextID, feedVars, rz>>

\* getImage on a miss: db.Get of the post and the extension / mime test
Load(g) ==
    /\ req[g].pc = "load"
    /\ IF req[g].pid \in DOMAIN posts
          /\ ExtMatches(req[g].ext, posts[req[g].pid].mime)
       THEN /\ req' = [req EXCEPT ![g] =
                      [pc |-> "put", pid |-> req[g].pid, ext |-> req[g].ext,
                       mime |-> posts[req[g].pid].mime,
                       imgdata |-> posts[req[g].pid].imgdata]]
            /\ resp' = None
       ELSE /\ req' = [req EXCEPT ![g] = Idle]
            /\ resp' = [pid |-> req[g].pid, ext |-> req[g].ext, hit |-> FALSE,
                        match |-> NoTag, stale |-> FALSE,
                        out |-> IF req[g].pid \in DOMAIN posts
                                THEN NotFound ELSE Unwritten]
    /\ lastPut' = None
    /\ UNCHANGED <<posts, data, curSize, now, up, ini, nextID, lock,
                   feedVars, rz>>

\* getImage on a miss, addToCache(cacheKey, imgdata): imageCache.mu.Lock()
PutLock(g) ==
    /\ req[g].pc = "put"
    /\ now.t < MaxClock
    /\ CanLock(lock)
    /\ lock' = Lock(lock, g)
    /\ req' = [req EXCEPT ![g].pc = "insert"]
    /\ lastPut' = None
    /\ resp' = None
    /\ UNCHANGED <<posts, data, curSize, now, up, ini, nextID, feedVars,
                   rz>>

\* addToCache under the mutex and its deferred Unlock(); the bytes are
\* served
Put(g) ==
    /\ req[g].pc = "insert"
    /\ lock' = Unlock(lock, g)
    /\ AddToCache(CacheKey(req[g].pid, req[g].ext), req[g].imgdata)
    /\ \E match \in Matches(req[g].imgdata) :
         resp' = [pid |-> req[g].pid, ext |-> req[g].ext, hit |-> FALSE,
                  match |-> match, stale |-> FALSE,
                  out |-> Serve(req[g].ext, req[g].imgdata, match)]
    /\ req' = [req EXCEPT ![g] = Idle]
    /\ UNCHANGED <<posts, up, ini, nextID, feedVars, rz>>

(***************************************************************************)
(* postIndex                                                               *)
(***************************************************************************)
\* postIndex, me := getSessionUser(r): the user of the session, if users
\* holds its row with del_flg = 0; any other request is redirected
UploadSession ==
    /\ up.pc = "idle"
    /\ nextID \in PostIds
    /\ \E me \in DOMAIN users :
         /\ users[me] = 0
         /\ up' = [pc |-> "insert", me |-> me]
    /\ lastPut' = None
    /\ resp' = None
    /\ UNCHANGED <<posts, data, curSize, now, req, ini, nextID, lock,
                   feedVars, rz>>

\* resizedData: the re-encoding of the file, or the file itself when
\* resizeImage cannot decode it
StoredLen(u) == IF u.decodes THEN u.resized ELSE u.len

\* postIndex from the form to its INSERT INTO posts.  A file longer than
\* UploadLimit is answered with a notice and a redirect, and no row is
\* written; of any other file resizedData is stored under me.ID, with the
\* id AUTO_INCREMENT gives, which is never given twice.
UploadInsert ==
    /\ up.pc = "insert"
    /\ \E u \in Uploads :
         IF u.len > UploadLimit
         THEN /\ up' = Idle
              /\ UNCHANGED <<posts, nextID>>
         ELSE /\ posts' = [x \in DOMAIN posts \cup {nextID} |->
                             IF x = nextID
                             THEN [user_id |-> up.me, mime |-> u.mime,
                                   imgdata |-> Bytes(nextID, StoredLen(u))]
                             ELSE posts[x]]
              /\ up' = [pc |-> "clear"]
              /\ nextID' = nextID + 1
    /\ lastPut' = None
    /\ resp' = None
    /\ UNCHANGED <<data, curSize, now, req, ini, lock, feedVars, rz>>

\* the clearImageCache() of postIndex: imageCache.mu.Lock()
ClearLock ==
    /\ up.pc = "clear"
    /\ CanLock(lock)
    /\ lock' = Lock(lock, Uploader)
    /\ up' = [pc |-> "clearing"]
    /\ lastPut' = None
    /\ resp' = None
    /\ UNCHANGED <<posts, data, curSize, now, req, ini, nextID, feedVars,
                   rz>>

\* clearImageCache under the mutex and its deferred Unlock(); the redirect
UploadClear ==
    /\ up.pc = "clearing"
    /\ lock' = Unlock(lock, Uploader)
    /\ ClearImageCache
    /\ up' = Idle
    /\ resp' = None
    /\ UNCHANGED <<posts, req, ini, nextID, feedVars, rz>>

(***************************************************************************)
(* getInitialize: the five statements of dbInitialize, each its own        *)
(* db.Exec outside any transaction.  imageCache is left as it is.          *)
(***************************************************************************)
\* the users of the initial data set (ids up to 1000), and those among them
\* that dbInitialize bans again (id % 50 = 0)
SeedUsers == {1, 2}
SeedBanned == {2}

\* the comments of the initial data set (ids up to 100000)
SeedComments == MaxComments - 1

\* the posts of the initial data set (ids up to 10000)
SeedPosts == {1, 2}

\* the db.Exec statements of dbInitialize
InitStatements == 5

\* the statement a call of getInitialize is at; 0 when none is running
InitAt == ini % InitStatements

\* DELETE FROM users WHERE id > 1000
InitDeleteUsers ==
    /\ InitAt = 0
    /\ ini < InitStatements * MaxInit
    /\ ini' = ini + 1
    /\ users' = [u \in DOMAIN users \cap SeedUsers |-> users[u]]
    /\ lastPut' = None
    /\ resp' = None
    /\ UNCHANGED <<posts, data, curSize, now, req, up, nextID, lock,
                   nextUser, comments, cm, bn, mp, rz>>

\* DELETE FROM posts WHERE id > 10000
InitDeletePosts ==
    /\ InitAt = 1
    /\ ini' = ini + 1
    /\ posts' = [pid \in DOMAIN posts \cap SeedPosts |-> posts[pid]]
    /\ lastPut' = None
    /\ resp' = None
    /\ UNCHANGED <<data, curSize, now, req, up, nextID, lock, feedVars,
                   rz>>

\* DELETE FROM comments WHERE id > 100000
InitDeleteComments ==
    /\ InitAt = 2
    /\ ini' = ini + 1
    /\ comments' = SubSeq(comments, 1,
                          IF Len(comments) < SeedComments
                          THEN Len(comments) ELSE SeedComments)
    /\ lastPut' = None
    /\ resp' = None
    /\ UNCHANGED <<posts, data, curSize, now, req, up, nextID, lock,
                   users, nextUser, cm, bn, mp, rz>>

\* UPDATE users SET del_flg = 0
InitUnban ==
    /\ InitAt = 3
    /\ ini' = ini + 1
    /\ users' = [u \in DOMAIN users |-> 0]
    /\ lastPut' = None
    /\ resp' = None
    /\ UNCHANGED <<posts, data, curSize, now, req, up, nextID, lock,
                   nextUser, comments, cm, bn, mp, rz>>

\* UPDATE users SET del_flg = 1 WHERE id % 50 = 0, and the response
InitBan ==
    /\ InitAt = 4
    /\ ini' = ini + 1
    /\ users' = [u \in DOMAIN users |->
                   IF u \in SeedBanned THEN 1 ELSE users[u]]
    /\ lastPut' = None
    /\ resp' = None
    /\ UNCHANGED <<posts, data, curSize, now, req, up, nextID, lock,
                   nextUser, comments, cm, bn, mp, rz>>

(***************************************************************************)
(* Specification of the image path                                         *)
(***************************************************************************)
\* no call of makePosts is running
NoCall == [pc |-> "idle"]

\* no call of resizeImage is running
NoResize == [pc |-> "idle"]

\* the posts table before the first upload: a jpeg and a png, both small
InitialPosts ==
    (1 :> [user_id |-> 1, mime |-> "image/jpeg", imgdata |-> Bytes(1, 2)]) @@
    (2 :> [user_id |-> 2, mime |-> "image/png", imgdata |-> Bytes(2, 2)])

\* the id of the first row postIndex inserts
FirstUploadID == Cardinality(DOMAIN InitialPosts) + 1

\* the id of the first row postRegister inserts
FirstUserID == Cardinality(SeedUsers) + 1

\* the users table as dbInitialize leaves it
InitialUsers == [u \in SeedUsers |-> IF u \in SeedBanned THEN 1 ELSE 0]

InitImage ==
    /\ posts = InitialPosts
    /\ nextID = FirstUploadID
    /\ data = << >>
    /\ curSize = 0
    /\ now = Epoch
    /\ req = [g \in Readers |-> Idle]
    /\ up = Idle
    /\ ini = 0
    /\ lastPut = None
    /\ lock = Unlocked
    /\ resp = None
    /\ rz = NoResize
    /\ users = InitialUsers
    /\ nextUser = FirstUserID
    /\ comments = << >>
    /\ cm = Idle
    /\ bn = Idle
    /\ mp = NoCall

(***************************************************************************)
(* makePosts                                                               *)
(*                                                                         *)
(* The first query is modelled by what its SQL text selects.  The text of  *)
(* the second query has two placeholders, `IN (?)` and `LIMIT ?`, and      *)
(* sqlx.In is handed one argument, postIDs: it returns the error "number   *)
(* of bindVars exceeds arguments", and makePosts returns nil, err (lines   *)
(* 337-340).  The second db.Queryx, its row loop and the loop that         *)
(* assembles the entries (lines 342-386) are never reached by a call on a  *)
(* non-empty list and have no action here.                                 *)
(* `for _, p := range results { postMap[p.ID] = &p }` is taken with Go     *)
(* 1.22's per-iteration p (the file uses net/http's PathValue, which Go    *)
(* 1.22 introduced).                                                       *)
(***************************************************************************)
\* the ids of the comments on post pid
CommentsOf(pid) == {c \in DOMAIN comments : comments[c].post_id = pid}

\* the zero value of User
ZeroUser == [ID |-> 0, DelFlg |-> 0]

\* postMap after the loop over results: the posts as the caller passed them
NewPostMap(results) ==
    [pid \in {results[i] : i \in DOMAIN results} |->
        [ID |-> pid, CommentCount |-> 0, User |-> ZeroUser, Comments |-> <<>>]]

\* The rows of the first query: one per post of the list that the posts
\* table holds (FROM posts p ... WHERE p.id IN (?) GROUP BY p.id, u.id)
Rows(results) == {results[i] : i \in DOMAIN results} \cap DOMAIN posts

\* The rows among them whose author the users table does not hold: the
\* LEFT JOIN gives them NULL in every column of u, and rows.Scan into int,
\* string and time.Time returns an error on them
NullRows(results) ==
    {pid \in Rows(results) : posts[pid].user_id \notin DOMAIN users}

\* the first row loop over the rows of the posts `got`: COUNT(c.id) and the
\* author's columns are stored in the entry of the post
ScanSome(postMap, got) ==
    [pid \in DOMAIN postMap |->
        IF pid \in got
        THEN [postMap[pid] EXCEPT
                !.CommentCount = Cardinality(CommentsOf(pid)),
                !.User = [ID |-> posts[pid].user_id,
                          DelFlg |-> users[posts[pid].user_id]]]
        ELSE postMap[pid]]

\* the first row loop over every row of the query
ScanCounts(results) == ScanSome(NewPostMap(results), Rows(results))

\* the `?` of the text of the first query: `WHERE p.id IN (?)`
CountBindVars == 1

\* the `?` of the text of the second query: `WHERE c.post_id IN (?)` and
\* `LIMIT ?`
CommentBindVars == 2

\* sqlx.In(query, args...) with a slice among args: it walks the `?` of the
\* text, one argument each, and returns an error when the text has more of
\* them than there are arguments, or fewer
InFails(bindVars, args) == bindVars # Len(args)

\* the query for the list and then one query per post of it
CountQueryPerPost(q) == q + 1 + Len(mp.results)

\* one more db.Queryx
CountQuery(q) == q + 1

\* a makePosts that goes on after a failed query as if it had no rows
ErrSwallowed(fault) == FALSE

\* The error makePosts returns from its first query: `if err != nil {
\* return nil, err }` follows db.Queryx and rows.Scan; nothing follows the
\* `for rows.Next()` loop, so a broken row stream leaves err nil there.
ErrOf(fault) == fault \in {"query", "scan"}

RECURSIVE ListsOf(_)
\* the lists of distinct ids of S: what a SELECT on posts can hand makePosts
ListsOf(S) ==
    {<<>>} \cup UNION {{<<x>> \o t : t \in ListsOf(S \ {x})} : x \in S}

\* getIndex, getAccountName, getPosts: makePosts(results, token, false)
CallFeed ==
    /\ mp.pc = "idle"
    /\ \E results \in {r \in ListsOf(DOMAIN posts) : Len(r) <= MaxList} :
         mp' = [pc |-> "start", results |-> results, allComments |-> FALSE,
                postMap |-> << >>, out |-> <<>>,
                err |-> FALSE, queries |-> 0, fault |-> "none"]
    /\ UNCHANGED <<posts, users, nextUser, comments, cm, bn, imageVars, rz>>

\* getPostsID: makePosts(results, token, true), results the row of one id
CallDetail ==
    /\ mp.pc = "idle"
    /\ \E results \in {r \in ListsOf(DOMAIN posts) : Len(r) <= 1} :
         mp' = [pc |-> "start", results |-> results, allComments |-> TRUE,
                postMap |-> << >>, out |-> <<>>,
                err |-> FALSE, queries |-> 0, fault |-> "none"]
    /\ UNCHANGED <<posts, users, nextUser, comments, cm, bn, imageVars, rz>>

\* if len(results) == 0 { return posts, nil }
ReturnEmpty ==
    /\ mp.pc = "start"
    /\ Len(mp.results) = 0
    /\ mp' = [mp EXCEPT !.pc = "done"]
    /\ UNCHANGED <<posts, users, nextUser, comments, cm, bn, imageVars, rz>>

\* commentQuery, args, err = sqlx.In(commentQuery, postIDs);
\* if err != nil { return nil, err }
BindComments(m) ==
    IF InFails(CommentBindVars, <<m.results>>)
    THEN [m EXCEPT !.pc = "done", !.err = TRUE]
    ELSE [m EXCEPT !.pc = "query"]

\* makePosts from postIDs to the sqlx.In of the comment query: sqlx.In,
\* postMap, the first db.Queryx with its row loop, and, when the loop has
\* ended, the text of the comment query and its sqlx.In, which touch nothing
\* but the locals of the call.
\* db.Queryx returns an error; or every row is scanned; or rows.Scan
\* returns its error on a row without author; or the row stream breaks:
\* rows.Next() then returns false after the rows of some of the posts, the
\* loop ends as it does after the last row, and rows.Err() is never read.
\* mp.fault is history: what went wrong in the call.
QueryCounts ==
    /\ mp.pc = "start"
    /\ Len(mp.results) > 0
    /\ IF InFails(CountBindVars, <<mp.results>>)
       THEN mp' = [mp EXCEPT !.pc = "done", !.err = TRUE]
       ELSE \/ mp' = [mp EXCEPT !.pc = "done", !.err = ErrOf("query"),
                                !.fault = "query",
                                !.queries = CountQuery(mp.queries)]
            \/ /\ NullRows(mp.results) = {}
               /\ mp' = BindComments(
                            [mp EXCEPT !.queries = CountQuery(mp.queries),
                                       !.postMap = ScanCounts(mp.results)])
            \/ /\ NullRows(mp.results) # {}
               /\ mp' = [mp EXCEPT !.pc = "done", !.err = ErrOf("scan"),
                                   !.fault = "scan",
                                   !.queries = CountQuery(mp.queries)]
            \/ \E got \in SUBSET (Rows(mp.results) \ NullRows(mp.results)) :
                 mp' = BindComments(
                          [mp EXCEPT !.err = ErrOf("rows"), !.fault = "rows",
                                     !.queries = CountQuery(mp.queries),
                                     !.postMap =
                                         ScanSome(NewPostMap(mp.results),
                                                  got)])
    /\ UNCHANGED <<posts, users, nextUser, comments, cm, bn, imageVars, rz>>

\* the handler has used the result; the next request may come
Return ==
    /\ mp.pc = "done"
    /\ mp' = NoCall
    /\ UNCHANGED <<posts, users, nextUser, comments, cm, bn, imageVars, rz>>

(***************************************************************************)
(* The handlers that write the tables makePosts reads                      *)
(***************************************************************************)
\* postComment, me := getSessionUser(r): the user of the session, if users
\* holds its row with del_flg = 0; any other request is redirected
CommentSession ==
    /\ cm.pc = "idle"
    /\ Len(comments) < MaxComments
    /\ \E me \in DOMAIN users :
         /\ users[me] = 0
         /\ cm' = [pc |-> "insert", me |-> me]
    /\ UNCHANGED <<posts, users, nextUser, comments, bn, mp, imageVars, rz>>

\* postComment: INSERT INTO comments (post_id, user_id, comment); post_id
\* is any integer of the form, whether posts holds such a row or not, and
\* user_id is me.ID
CommentInsert ==
    /\ cm.pc = "insert"
    /\ \E pid \in PostIds :
         comments' = Append(comments, [post_id |-> pid, user_id |-> cm.me])
    /\ cm' = Idle
    /\ UNCHANGED <<posts, users, nextUser, bn, mp, imageVars, rz>>

\* the users whose row has authority 1: one of the initial data set, and
\* none of those postRegister inserts
Admins == {1}

\* postAdminBanned, me := getSessionUser(r): the user of the session, if
\* users holds its row with del_flg = 0 and its authority is not 0; any
\* other request is redirected or forbidden
BanSession ==
    /\ bn.pc = "idle"
    /\ \E me \in DOMAIN users \cap Admins : users[me] = 0
    /\ bn' = [pc |-> "update"]
    /\ UNCHANGED <<posts, users, nextUser, comments, cm, mp, imageVars, rz>>

\* postAdminBanned, one turn of the loop over the uid[] of the form:
\* UPDATE users SET del_flg = 1 WHERE id = ?, whatever the id
BanUpdate ==
    /\ bn.pc = "update"
    /\ \E u \in UserIds :
         users' = [v \in DOMAIN users |-> IF v = u THEN 1 ELSE users[v]]
    /\ UNCHANGED <<posts, nextUser, comments, cm, bn, mp, imageVars, rz>>

\* postAdminBanned: the form has no further uid[]; the redirect
BanReturn ==
    /\ bn.pc = "update"
    /\ bn' = Idle
    /\ UNCHANGED <<posts, users, nextUser, comments, cm, mp, imageVars, rz>>

\* postRegister: INSERT INTO users, del_flg at its default 0, with the id
\* AUTO_INCREMENT gives
PostRegister ==
    /\ nextUser \in UserIds
    /\ users' = [v \in DOMAIN users \cup {nextUser} |->
                   IF v = nextUser THEN 0 ELSE users[v]]
    /\ nextUser' = nextUser + 1
    /\ UNCHANGED <<posts, comments, cm, bn, mp, imageVars, rz>>

InitPosts ==
    /\ users = InitialUsers
    /\ nextUser = FirstUserID
    /\ posts = InitialPosts
    /\ \E f \in [1..SeedComments -> DOMAIN InitialPosts] :
         comments = [c \in 1..SeedComments |->
                       [post_id |-> f[c], user_id |-> 1 + (c % 2)]]
    /\ cm = Idle
    /\ bn = Idle
    /\ mp = NoCall
    /\ data = << >>
    /\ curSize = 0
    /\ now = Epoch
    /\ req = [g \in Readers |-> Idle]
    /\ up = Idle
    /\ ini = 0
    /\ nextID = FirstUploadID
    /\ lastPut = None
    /\ lock = Unlocked
    /\ resp = None
    /\ rz = NoResize

NextPosts ==
    \/ CallFeed
    \/ CallDetail
    \/ ReturnEmpty
    \/ QueryCounts
    \/ Return
    \/ CommentSession
    \/ CommentInsert
    \/ BanSession
    \/ BanUpdate
    \/ BanReturn
    \/ PostRegister
    \/ InitDeleteUsers
    \/ InitDeletePosts
    \/ InitDeleteComments
    \/ InitUnban
    \/ InitBan
    \/ UploadSession
    \/ UploadInsert
    \/ ClearLock
    \/ UploadClear

SpecPosts == InitPosts /\ [][NextPosts]_vars

(***************************************************************************)
(* resizeImage                                                             *)
(*                                                                         *)
(* An image is its width, its height and its format.  resize.Resize is the *)
(* library github.com/nfnt/resize: it returns an image of the given width  *)
(* and height; a width or height of 0 is computed from the other so that   *)
(* the aspect ratio of the input is kept.                                  *)
(***************************************************************************)
MaxImageSize == 800

\* widths and heights of the images handed to resizeImage
Dims == {1, 400, MaxImageSize, 1600, 3000, 5000}

\* the mime argument: the three postIndex passes, and one it never passes
ResizeMimes == {"image/jpeg", "image/png", "image/gif", "image/bmp"}

\* uint(0.7 + float64(a) / (float64(b) / float64(c)))
ScaledDim(a, b, c) == (10 * a * c + 7 * b) \div (10 * b)

\* resize.Resize(width, height, img, interp) for an img of w x h
Resize(width, height, w, h) ==
    [w |-> IF width # 0 THEN width
           ELSE IF height # 0 THEN ScaledDim(w, h, height) ELSE w,
     h |-> IF height # 0 THEN height
           ELSE IF width # 0 THEN ScaledDim(h, w, width) ELSE h]

\* the switch over mime: the encoder used, "" for the default branch
EncoderOf(mime) ==
    CASE mime = "image/jpeg" -> "jpeg"
      [] mime = "image/png" -> "png"
      [] mime = "image/gif" -> "gif"
      [] OTHER -> ""

\* resizeImage(imgData, mime)
ResizeImage ==
    /\ rz.pc = "call"
    /\ rz' = IF ~rz.decodable \/ EncoderOf(rz.mime) = ""
             THEN [rz EXCEPT !.pc = "done", !.err = TRUE]
             ELSE [rz EXCEPT !.pc = "done",
                             !.out = [dim |-> Resize(MaxImageSize, MaxImageSize,
                                                     rz.w, rz.h),
                                      format |-> EncoderOf(rz.mime)]]
    /\ UNCHANGED <<posts, imageVars, feedVars>>

\* one call of resizeImage on any image and mime; the cache and the tables
\* as they are after construction
InitResize ==
    /\ \E w \in Dims, h \in Dims, m \in ResizeMimes, d \in BOOLEAN :
         rz = [pc |-> "call", w |-> w, h |-> h, mime |-> m, decodable |-> d,
               err |-> FALSE, out |-> None]
    /\ posts = InitialPosts
    /\ data = << >>
    /\ curSize = 0
    /\ now = Epoch
    /\ req = [g \in Readers |-> Idle]
    /\ up = Idle
    /\ ini = 0
    /\ cm = Idle
    /\ bn = Idle
    /\ nextID = FirstUploadID
    /\ lastPut = None
    /\ lock = Unlocked
    /\ resp = None
    /\ users = InitialUsers
    /\ nextUser = FirstUserID
    /\ comments = << >>
    /\ mp = NoCall

NextResize ==
    \/ ResizeImage

SpecResize == InitResize /\ [][NextResize]_vars

(***************************************************************************)
(* The addToCache call that has just returned, replayed from lastPut       *)
(***************************************************************************)
PutDone == lastPut # None

RECURSIVE DeleteAll(_, _, _)
\* the map d without the first n keys of the sequence ev
DeleteAll(d, ev, n) ==
    IF n = 0 THEN d ELSE Delete(DeleteAll(d, ev, n - 1), ev[n])

RECURSIVE LenOf(_, _, _)
\* the payload bytes of the first n keys of ev, as map d stored them
LenOf(d, ev, n) ==
    IF n = 0 THEN 0 ELSE LenOf(d, ev, n - 1) + Len(d[ev[n]].data)

\* the map and the tracked size just before the i-th eviction of the put
MapAt(i) == DeleteAll(lastPut.before, lastPut.evicted, i - 1)
SizeAt(i) == lastPut.beforeSize - LenOf(lastPut.before, lastPut.evicted, i - 1)

DistinctTimes(d) ==
    \A j, k \in DOMAIN d : j # k => d[j].lastUse # d[k].lastUse

PayloadSum == SumLen(data, DOMAIN data)

\* the single-oversized-entry slack: one entry, larger than the whole budget
OversizedSlack ==
    /\ Cardinality(DOMAIN data) = 1
    /\ \A k \in DOMAIN data : Len(data[k].data) > maxSize

(***************************************************************************)
(* Claims on the image cache                                               *)
(***************************************************************************)
\* C1: in every state the tracked size curSize equals the sum of the
\* lengths of the payloads stored in the map, also after a put on a key
\* that is already present.
C1_TrackedSizeIsPayloadSum == curSize = PayloadSum

\* C2: in every state curSize is at most maxSize, unless the cache holds
\* exactly one entry whose own payload is larger than maxSize.
C2_TrackedSizeWithinBudget == curSize <= maxSize \/ OversizedSlack

\* C3: in every state (each is the state after a completed cache operation)
\* the sum of the stored payload lengths is at most maxSize, unless the
\* cache holds a single entry whose payload alone exceeds maxSize.
C3_PayloadSumWithinBudget == PayloadSum <= maxSize \/ OversizedSlack

\* C3 witness: a put on a cache of two entries whose payloads, with the new
\* one, add up to more than maxSize has evicted one of them and left the
\* other with the new entry.
C3_Witness ==
    /\ PutDone
    /\ Cardinality(DOMAIN lastPut.before) = 2
    /\ SumLen(lastPut.before, DOMAIN lastPut.before) + lastPut.len > maxSize
    /\ Len(lastPut.evicted) = 1
    /\ Cardinality(DOMAIN data) = 2
    /\ PayloadSum <= maxSize

\* C4: when the entries present had distinct last-access times, every entry
\* a put evicted was the oldest of the entries present at that moment, it
\* was evicted only while the tracked size plus the new payload exceeded
\* maxSize, and the loop ended as soon as the payload fitted or the map was
\* empty; in particular a put of a third payload of size s (2s <= maxSize <
\* 3s) into a cache holding exactly A (older) and B (newer), both of size s,
\* evicts exactly A and leaves B and the new entry, 2s bytes in all.
C4_EvictsOldestUntilFit ==
    (PutDone /\ DistinctTimes(lastPut.before)) =>
        LET ev == lastPut.evicted
            n == Len(ev)
            bf == lastPut.before
        IN /\ \A i \in 1..n :
                /\ SizeAt(i) + lastPut.len > maxSize
                /\ \A j \in DOMAIN MapAt(i) \ {ev[i]} :
                       bf[ev[i]].lastUse < bf[j].lastUse
           /\ \/ SizeAt(n + 1) + lastPut.len <= maxSize
              \/ DOMAIN MapAt(n + 1) = {}
           /\ \A a, b \in DOMAIN bf :
                (/\ DOMAIN bf = {a, b}
                 /\ a # b
                 /\ lastPut.key \notin {a, b}
                 /\ Len(bf[a].data) = lastPut.len
                 /\ Len(bf[b].data) = lastPut.len
                 /\ 2 * lastPut.len <= maxSize
                 /\ 3 * lastPut.len > maxSize
                 /\ bf[a].lastUse < bf[b].lastUse)
                => /\ ev = <<a>>
                   /\ DOMAIN data = {b, lastPut.key}
                   /\ data[b] = bf[b]
                   /\ PayloadSum = 2 * lastPut.len

\* C4 witness: the scenario itself: A and B of equal size, A older, and a
\* put of a third payload of that size has evicted A alone.
C4_Witness ==
    /\ PutDone
    /\ DistinctTimes(lastPut.before)
    /\ Cardinality(DOMAIN lastPut.before) = 2
    /\ Len(lastPut.evicted) = 1
    /\ lastPut.key \notin DOMAIN lastPut.before
    /\ \A k \in DOMAIN lastPut.before :
           Len(lastPut.before[k].data) = lastPut.len
    /\ Cardinality(DOMAIN data) = 2
    /\ PayloadSum = 2 * lastPut.len

\* C5: an entry K that a get has hit and refreshed at time g is not evicted
\* by a later put while an entry last accessed before g is still present:
\* the get has set K's lastUse to g.  (The entry is the object the get
\* found: the refresh of an object that was evicted or replaced between the
\* get's lookup and its refresh does not reach the map.)
C5_GetProtectsFromEviction ==
    PutDone =>
        \A i \in 1..Len(lastPut.evicted) :
            LET k == lastPut.evicted[i]
                g == lastPut.before[k].lastGet
            IN g > 0 =>
                 \A j \in DOMAIN MapAt(i) : ~(lastPut.before[j].lastUse < g)

\* C5 witness: a put has evicted an entry B although an entry A, inserted
\* before B, was present: a get had hit A after B's last access.
C5_Witness ==
    /\ PutDone
    /\ \E a \in DOMAIN lastPut.before, i \in 1..Len(lastPut.evicted) :
         LET b == lastPut.evicted[i]
         IN /\ a \in DOMAIN data
            /\ a # lastPut.key
            /\ lastPut.before[a].id < lastPut.before[b].id
            /\ lastPut.before[a].lastGet > lastPut.before[b].lastUse

(***************************************************************************)
(* Claims on getImage                                                      *)
(***************************************************************************)
\* reader g takes the step that leaves position pc
Leaves(g, pc) == req[g].pc = pc /\ req'[g] # req[g]

\* reader g has missed the cache and asks for an extension whose mime type
\* is not the one stored with its post
Mismatched(g) ==
    /\ req[g].pc = "load"
    /\ req[g].pid \in DOMAIN posts
    /\ GetMimeType(req[g].ext) # posts[req[g].pid].mime

\* C12: a read that misses the cache and asks for an extension that does
\* not match the post's stored mime type is answered 404 without a body,
\* and neither its lookup (under the read lock, and its release) nor its
\* load changes the cache's keys, payloads or tracked size.
C12_MismatchIsNotFound ==
    [][\A g \in Readers :
         /\ (Leaves(g, "idle") \/ Leaves(g, "looked")) =>
                (data' = data /\ curSize' = curSize)
         /\ (Leaves(g, "load") /\ Mismatched(g)) =>
                /\ req'[g] = Idle
                /\ resp' # None
                /\ resp'.out = NotFound
                /\ data' = data
                /\ curSize' = curSize]_vars

\* C12 witness: post 2, stored as image/png, has been asked for as "jpg"
\* while the cache held another entry, and the answer was 404.
C12_Witness ==
    /\ resp # None
    /\ ~resp.hit
    /\ resp.pid = 2
    /\ resp.ext = "jpg"
    /\ posts[2].mime = "image/png"
    /\ resp.out.status = 404
    /\ data # << >>

\* C13: an upload whose INSERT has succeeded has the invalidation of the
\* cache still ahead of it, and completes only through it: it takes the
\* write lock, and the step that ends the upload leaves no entry in the
\* cache and the tracked size at 0.
C13_UploadInvalidatesCache ==
    [][/\ (DOMAIN posts' \ DOMAIN posts # {}) =>
             (up.pc = "insert" /\ up'.pc = "clear")
       /\ (up.pc = "clear" /\ up'.pc # "clear") =>
             (up'.pc = "clearing" /\ lock'.writer = {Uploader})
       /\ (up.pc = "clearing" /\ up'.pc # "clearing") =>
             /\ up'.pc = "idle"
             /\ data' = << >>
             /\ curSize' = 0]_vars

\* C13 witness: the upload of post 3 has completed after images had been
\* cached (the clock has been read), and the cache is empty, its size 0.
C13_Witness ==
    /\ 3 \in DOMAIN posts
    /\ up.pc = "idle"
    /\ now.n > 0
    /\ data = << >>
    /\ curSize = 0

\* getImage has just served the image of an existing post: 200 or 304
Served ==
    /\ resp # None
    /\ resp.pid \in DOMAIN posts
    /\ resp.out.status \in {200, 304}

\* C14: every read of a post and extension, served from the store or from
\* the cache, carries the tag of the post's persisted bytes, so two reads of
\* the unchanged post carry identical tags; and a read whose If-None-Match
\* is that tag is answered 304 without a body.
C14_SameETagAndNotModified ==
    Served =>
        /\ resp.out.etag = ETag(posts[resp.pid].imgdata)
        /\ (resp.match = resp.out.etag) =>
              (resp.out.status = 304 /\ resp.out.body = <<>>)

\* C14 witness: a read served from the cache has presented the tag an
\* earlier read of the post gave out and has been answered 304.
C14_Witness ==
    /\ Served
    /\ resp.hit
    /\ resp.match = ETag(posts[resp.pid].imgdata)
    /\ resp.out.status = 304

\* no row of posts has been deleted: the table holds every id given so far
NothingDeleted == DOMAIN posts = 1..(nextID - 1)

\* C21: only a read that passed the extension / mime test puts a key into
\* the cache: a reader about to call addToCache holds a row whose stored
\* mime type is that of its extension, and every key (post id, extension)
\* in the cache is of a post whose stored mime type is that of the
\* extension.  Hence a hit, which skips the test, never serves a
\* mismatched extension / mime combination.  (Of a post that getInitialize
\* has deleted the table has no mime type to compare with.)
C21_CachedKeysMatchMime ==
    /\ \A g \in Readers :
          req[g].pc \in {"put", "insert"} =>
              GetMimeType(req[g].ext) = req[g].mime
    /\ \A key \in DOMAIN data :
          /\ NothingDeleted => key[1] \in DOMAIN posts
          /\ key[1] \in DOMAIN posts =>
                GetMimeType(key[2]) = posts[key[1]].mime
    /\ (resp # None /\ resp.hit) =>
          /\ NothingDeleted => resp.pid \in DOMAIN posts
          /\ resp.pid \in DOMAIN posts =>
                /\ GetMimeType(resp.ext) = posts[resp.pid].mime
                /\ resp.out.ctype = posts[resp.pid].mime

\* C21 witness: a hit has been served with its bytes while the cache holds
\* the keys of two posts of different mime types.
C21_Witness ==
    /\ resp # None
    /\ resp.hit
    /\ resp.out.status = 200
    /\ \E j, k \in DOMAIN data :
          /\ {j[1], k[1]} \subseteq DOMAIN posts
          /\ posts[j[1]].mime # posts[k[1]].mime

\* the bytes a reader holds to serve: those of the entry its lookup found,
\* or those it has loaded and is about to put
Holding(g) ==
    \/ req[g].pc \in {"touch", "refresh", "put", "insert"}
    \/ req[g].pc = "looked" /\ req[g].found

\* C22: under every interleaving of reads, uploads and invalidations, a
\* read that returns bytes for a post id and extension, from the cache or
\* from the store, returns the bytes persisted for that post: the bytes a
\* reader holds to serve are those of the row of its post, and so are the
\* bytes of a response that carries a body.  (getInitialize is none of the
\* three: it deletes rows and leaves the cache, and of a post it has
\* deleted there are no persisted bytes to compare with.)
C22_ServedBytesArePersisted ==
    /\ \A g \in Readers :
          Holding(g) =>
            /\ NothingDeleted => req[g].pid \in DOMAIN posts
            /\ req[g].pid \in DOMAIN posts =>
                  req[g].imgdata = posts[req[g].pid].imgdata
    /\ (resp # None /\ resp.out.status = 200 /\ resp.out.body # <<>>) =>
          /\ NothingDeleted => resp.pid \in DOMAIN posts
          /\ resp.pid \in DOMAIN posts =>
                resp.out.body = posts[resp.pid].imgdata

\* C22 witness: post 3 has been uploaded and the cache invalidated, and a
\* read of post 3 has then been served its bytes from the cache.
C22_Witness ==
    /\ Served
    /\ resp.hit
    /\ resp.pid = 3
    /\ resp.out.status = 200
    /\ resp.out.body = posts[3].imgdata
    /\ up.pc = "idle"

\* C20: a get changes nothing but the last-access time of the entry it
\* found.  Its lookup, hit or miss, leaves the cache as it is, and so do
\* the release of the read lock and the taking of the write lock; its
\* refresh leaves the keys, every payload, every entry object and the
\* tracked size as they are and changes no lastUse but that of the entry
\* the lookup found; when that entry has left the map in between (evicted,
\* replaced or invalidated) the refresh leaves the map as it is and does
\* not put the entry back.
C20_GetOnlyRefreshes ==
    [][\A g \in Readers :
         /\ (Leaves(g, "idle") \/ Leaves(g, "looked") \/ Leaves(g, "touch"))
               => (data' = data /\ curSize' = curSize)
         /\ Leaves(g, "refresh") =>
               LET key == CacheKey(req[g].pid, req[g].ext)
               IN /\ DOMAIN data' = DOMAIN data
                  /\ curSize' = curSize
                  /\ \A k \in DOMAIN data :
                        /\ data'[k].data = data[k].data
                        /\ data'[k].id = data[k].id
                        /\ data'[k].lastUse # data[k].lastUse =>
                              (k = key /\ Holds(data, key, req[g].entry))
                  /\ ~Holds(data, key, req[g].entry) => data' = data]_vars

\* C20 witness: a hit has been served whose entry had left the map between
\* the lookup and the refresh, and the key is not in the map afterwards.
C20_Witness ==
    /\ resp # None
    /\ resp.hit
    /\ resp.stale
    /\ resp.out.status = 200
    /\ CacheKey(resp.pid, resp.ext) \notin DOMAIN data

\* the cache is as constructed, or it has just been written: by an
\* invalidation, by the put or by the refreshing get that has just returned.
\* Every value the cache takes, it takes first in such a state.
CacheWritten == data = << >> \/ PutDone \/ (resp # None /\ resp.hit)

\* C19: addToCache terminates for every payload and every state of the
\* cache.  For every value the cache takes, and for every payload length,
\* also one larger than maxSize, the eviction loop has an outcome after at
\* most one eviction per entry present, it stops when the payload fits or
\* the map is empty, and the insertion that follows puts the new entry
\* into the map; and so has every addToCache that has returned.
C19_PutTerminatesAndInserts ==
    /\ CacheWritten =>
          \A n \in Sizes :
             LET outs == EvictLoop(data, curSize, n, <<>>)
             IN /\ outs # {}
                /\ \A r \in outs :
                      /\ Len(r.evicted) <= Cardinality(DOMAIN data)
                      /\ \/ r.curSize + n <= maxSize
                         \/ DOMAIN r.data = {}
                      /\ \A pid \in PostIds, ext \in Exts :
                            LET key == CacheKey(pid, ext)
                                d == Insert(r.data, key,
                                            [data |-> Bytes(pid, n)])
                            IN key \in DOMAIN d /\ Len(d[key].data) = n
    /\ PutDone =>
          /\ lastPut.key \in DOMAIN data
          /\ Len(data[lastPut.key].data) = lastPut.len
          /\ Len(lastPut.evicted) <= Cardinality(DOMAIN lastPut.before)

\* C19 witness: a put has met a tracked size that its payload did not fit
\* under even after the last entry was evicted (two readers had populated
\* the same key, and curSize counted the payload twice): the loop has
\* evicted every entry, stopped on the empty map with the budget not
\* reached, and the new entry is the only one.
C19_Witness ==
    /\ PutDone
    /\ DOMAIN lastPut.before # {}
    /\ Len(lastPut.evicted) = Cardinality(DOMAIN lastPut.before)
    /\ curSize > maxSize
    /\ DOMAIN data = {lastPut.key}
    /\ Len(data[lastPut.key].data) = lastPut.len

\* the goroutines that wait on the storage: the readers that run db.Get
\* after a miss, and postIndex in its INSERT
OnStorage ==
    {g \in Readers : req[g].pc = "load"}
        \cup (IF up.pc = "insert" THEN {Uploader} ELSE {})

\* the goroutines inside a critical section of the cache: between RLock()
\* and RUnlock() of the lookup, or between Lock() and Unlock() of the
\* refresh, of addToCache or of clearImageCache
InSection ==
    {g \in Readers : req[g].pc \in {"looked", "refresh", "insert"}}
        \cup (IF up.pc = "clearing" THEN {Uploader} ELSE {})

\* C16: no goroutine holds imageCache's mutex, reading or writing, while it
\* waits on the storage: the mutex is held by the goroutines inside a
\* critical section of the cache and by no other, so a reader loads the
\* post after its lookup has given the read lock back and before
\* addToCache takes the write lock.
C16_NoLockWhileOnStorage ==
    /\ OnStorage \cap Holders(lock) = {}
    /\ Holders(lock) = InSection

\* C16 witness: a reader waits on the storage after its miss while the
\* other reader is inside addToCache and holds the write lock.
C16_Witness ==
    /\ \E g \in Readers : req[g].pc = "load"
    /\ \E g \in Readers : req[g].pc = "insert" /\ lock.writer = {g}

\* the addToCache that has just returned was the second of two populates
\* of one key with the same bytes, into a cache whose tracked size was the
\* sum of its payloads
DoublePopulate ==
    /\ PutDone
    /\ lastPut.key \in DOMAIN lastPut.before
    /\ lastPut.before[lastPut.key].data = data[lastPut.key].data
    /\ lastPut.beforeSize = SumLen(lastPut.before, DOMAIN lastPut.before)

\* C17: when two reads that both missed a key both populate it, the second
\* addToCache leaves the cache with the entries it had (one for the key, no
\* other entry lost) and the tracked size equal to the sum of the payloads.
C17_DoublePopulateIsBenign ==
    DoublePopulate =>
        /\ DOMAIN data = DOMAIN lastPut.before
        /\ \A k \in DOMAIN data \ {lastPut.key} : data[k] = lastPut.before[k]
        /\ curSize = PayloadSum

(***************************************************************************)
(* Claims on resizeImage                                                   *)
(***************************************************************************)
\* resizeImage has returned bytes, nil
Resized == rz.pc = "done" /\ ~rz.err

Abs(x) == IF x < 0 THEN 0 - x ELSE x
Max(a, b) == IF a < b THEN b ELSE a

\* ow x oh has the width-to-height ratio of w x h, to within the rounding
\* of one side to a whole pixel
SameRatio(w, h, ow, oh) == Abs(ow * h - oh * w) <= Max(w, h)

\* C15: for a decodable image of w x h and a supported mime, the image
\* resizeImage returns is at most 800 wide and 800 high and has the
\* width-to-height ratio of the input.
C15_ResizeKeepsRatioWithin800 ==
    Resized =>
        /\ rz.out.dim.w <= MaxImageSize
        /\ rz.out.dim.h <= MaxImageSize
        /\ SameRatio(rz.w, rz.h, rz.out.dim.w, rz.out.dim.h)

(***************************************************************************)
(* Claims on makePosts                                                     *)
(***************************************************************************)
\* makePosts has returned from a call on a non-empty list, the storage
\* having answered in full
Done == mp.pc = "done" /\ mp.results # <<>> /\ mp.fault = "none"

\* the storage has failed the call of makePosts that has returned
Failed == mp.pc = "done" /\ mp.fault # "none"

\* the ids of the entries makePosts returned, in their order
OutIds == [i \in DOMAIN mp.out |-> mp.out[i].ID]

\* the author the first query resolved for post pid has the deletion flag
AuthorDeleted(pid) == mp.postMap[pid].User.DelFlg # 0

\* C6: for a non-empty list of posts, the ids of the entries makePosts
\* returns are the ids of the list whose resolved author is not deleted, in
\* the order of the list.
C6_ReturnsVisiblePostsInOrder ==
    Done => OutIds = SelectSeq(mp.results, LAMBDA pid : ~AuthorDeleted(pid))

\* C10: a call of makePosts issues no query for an empty list and at most
\* two queries otherwise, however many posts the list has.
C10_AtMostTwoQueries ==
    mp.pc # "idle" =>
        /\ mp.queries <= 2
        /\ Len(mp.results) = 0 => mp.queries = 0

\* C10 witness: a call for a list of several posts has returned, and the
\* storage was queried once for it.
C10_Witness ==
    /\ mp.pc = "done"
    /\ Len(mp.results) = MaxList
    /\ mp.queries = 1

\* C11: when the storage has failed a query of makePosts, or a row could
\* not be read, the call returns an error and no entries: never a partial
\* list.
C11_FailureReturnsNothing ==
    Failed => (mp.err /\ mp.out = <<>>)

\* C11 witness: the first query has returned the rows of two posts, one of
\* them with an author and one without; the row without could not be
\* read, and the call has returned the error and no entry.
C11_Witness ==
    /\ Failed
    /\ mp.fault = "scan"
    /\ mp.err
    /\ mp.out = <<>>
    /\ Len(mp.results) = 2
    /\ NullRows(mp.results) # {}
    /\ Rows(mp.results) \ NullRows(mp.results) # {}

Next ==
    \/ \E g \in Readers : Lookup(g)
    \/ \E g \in Readers : LookupRUnlock(g)
    \/ \E g \in Readers : TouchLock(g)
    \/ \E g \in Readers : Touch(g)
    \/ \E g \in Readers : Load(g)
    \/ \E g \in Readers : PutLock(g)
    \/ \E g \in Readers : Put(g)
    \/ UploadSession
    \/ UploadInsert
    \/ ClearLock
    \/ UploadClear
    \/ InitDeleteUsers
    \/ InitDeletePosts
    \/ InitDeleteComments
    \/ InitUnban
    \/ InitBan

Spec == InitImage /\ [][Next]_vars

=============================================================================
